---- MODULE Spec2Model ----
(***************************************************************************)
(* Model of the orientation optimizer                                      *)
(*   src/aerialytic/pv_modeling/optimal_orientation.py                     *)
(* and of the HTTP handler that wraps it                                   *)
(*   src/aerialytic/views.py                                               *)
(*                                                                         *)
(* Angles are whole degrees.  Annual plane-of-array sums are whole Wh/m2.  *)
(* The external solar model (pvlib) is a black box: its answer for one     *)
(* call is the variable `response`, drawn from the family Responses, and   *)
(* Poa gives the annual sum it yields for one (tilt, azimuth) candidate.   *)
(***************************************************************************)
EXTENDS Integers, Sequences, FiniteSets, TLC

VARIABLES
    \* ---- get_optimal_orientation: arguments and the model's answer
    latitude, longitude, ground_slope_offset, response,
    \* ---- get_optimal_orientation: position and locals
    pc, tz, tilts, azimuths, ti, ai,
    max_irradiance, optimal_tilt, optimal_azimuth,
    \* ---- what the external model was asked, in order, during this call,
    \* ---- and the annual sums it has given so far (history)
    queries, sums_seen,
    \* ---- the dicts returned so far, one per finished call
    returned,
    \* ---- solar_geometry_api_view: the request, the reply, the optimizer calls
    \* ---- (their arguments) and what the calls that did not raise returned
    request, reply, optimizer_calls, optimizer_returned,
    \* ---- the max-reduction applied to a coarse and a refined candidate grid
    refine

optvars == <<latitude, longitude, ground_slope_offset, response, pc, tz, tilts,
             azimuths, ti, ai, max_irradiance, optimal_tilt, optimal_azimuth,
             queries, sums_seen, returned>>
viewvars == <<request, reply, optimizer_calls, optimizer_returned>>
vars == <<latitude, longitude, ground_slope_offset, response, pc, tz, tilts,
          azimuths, ti, ai, max_irradiance, optimal_tilt, optimal_azimuth,
          queries, sums_seen, returned, request, reply, optimizer_calls,
          optimizer_returned, refine>>

----------------------------------------------------------------------------
(* Bounds of the model                                                     *)

\* how many times the caller invokes get_optimal_orientation in a row
MaxCalls == 2

\* how many peaked / plateau model responses the family holds
MaxPeaks == 2

----------------------------------------------------------------------------
(* Program constants                                                       *)

TILT_START == 0
TILT_STOP == 91
AZ_NORTH_START == 90
AZ_NORTH_STOP == 271
AZ_SOUTH_START == 270
AZ_SOUTH_STOP == 451
GRID_STEP == 5
TILT_MIN == 0
TILT_MAX == 90
FULL_CIRCLE == 360
DEG_PER_HOUR == 15
WH_PER_KWH == 1000

----------------------------------------------------------------------------
(* Arithmetic helpers                                                      *)

Abs(x) == IF x < 0 THEN -x ELSE x

Min2(a, b) == IF a < b THEN a ELSE b

\* Python's min(90, x): the first argument stays unless the second is smaller
PyMin(a, b) == IF b < a THEN b ELSE a

\* Python's max(0, x): the first argument stays unless the second is greater
PyMax(a, b) == IF b > a THEN b ELSE a

\* Python's int(x / d) for d > 0: truncation toward zero
TruncDiv(x, d) == IF x >= 0 THEN x \div d ELSE -((-x) \div d)

\* Python's range(start, stop, step) as a sequence
PyRange(start, stop, step) ==
    [i \in 1..((stop - start + step - 1) \div step) |-> start + (i - 1) * step]

SetMin(S) == CHOOSE x \in S : \A y \in S : x <= y

\* list.sort() on a list of distinct numbers: the ascending sequence of S
RECURSIVE SortAsc(_)
SortAsc(S) ==
    IF S = {} THEN <<>>
    ELSE LET m == SetMin(S) IN <<m>> \o SortAsc(S \ {m})

Range(s) == {s[i] : i \in 1..Len(s)}

\* Python's true division n / d, kept exact: the fraction n over d
TrueDiv(n, d) == [num |-> n, den |-> d]

----------------------------------------------------------------------------
(* The external model's answer                                             *)

\* circular distance between two compass directions
AzDist(a, b) == Min2(Abs(a - b) % FULL_CIRCLE, FULL_CIRCLE - (Abs(a - b) % FULL_CIRCLE))

\* where the k-th peaked answer has its best orientation
PeakAt(k) == [pt |-> (32 * k) % 91, pa |-> (91 * k + 89) % FULL_CIRCLE]

\* The family of answers: flat ones (every candidate the same sum: negative,
\* zero or positive), peaked ones (the sum falls with the distance from a best
\* orientation, all positive or partly negative) and plateaus (a block of
\* equal best candidates over a zero floor).
Responses ==
    {[kind |-> "const", v |-> v, pt |-> 0, pa |-> 0] : v \in {-4000, 0, 500000}}
    \cup {[kind |-> "peak", v |-> v, pt |-> PeakAt(k).pt, pa |-> PeakAt(k).pa] :
            v \in {60000, 400000}, k \in 1..MaxPeaks}
    \cup {[kind |-> "plateau", v |-> 7000, pt |-> PeakAt(k).pt, pa |-> PeakAt(k).pa] :
            k \in 1..MaxPeaks}

\* poa_irradiance.sum() for one candidate under the answer r
Poa(r, tilt, azimuth) ==
    CASE r.kind = "const" -> r.v
      [] r.kind = "peak" -> r.v - 1000 * (Abs(tilt - r.pt) + AzDist(azimuth, r.pa))
      [] OTHER -> IF Abs(tilt - r.pt) <= 12 /\ AzDist(azimuth, r.pa) <= 12
                  THEN r.v ELSE 0

----------------------------------------------------------------------------
(* get_optimal_orientation                                                 *)

\* lines 41-45: the coarse time zone
TzOffset(lon) == TruncDiv(lon, DEG_PER_HOUR)

TzName(lon) ==
    IF TzOffset(lon) >= 0
    THEN <<"Etc/GMT-", TzOffset(lon)>>
    ELSE <<"Etc/GMT+", -TzOffset(lon)>>

\* the offset added instead of subtracted
ClampTilt_Added(base, off) == PyMax(TILT_MIN, PyMin(TILT_MAX, base + off))

\* line 66: max(0, min(90, tilt - ground_slope_offset))
ClampTilt(base, off) == PyMax(TILT_MIN, PyMin(TILT_MAX, base - off))

\* set() forgotten: the clamped list (already ascending) keeps its duplicates
TiltCandidates_NoDedup(off) ==
    LET base_tilts == PyRange(TILT_START, TILT_STOP, GRID_STEP)
    IN [i \in 1..Len(base_tilts) |-> ClampTilt(base_tilts[i], off)]

\* lines 65-68: the tilt candidates
TiltCandidates(off) ==
    LET base_tilts == PyRange(TILT_START, TILT_STOP, GRID_STEP)
        clamped == [i \in 1..Len(base_tilts) |-> ClampTilt(base_tilts[i], off)]
    IN SortAsc(Range(clamped))

\* the equator put in the southern hemisphere (> instead of >=)
AzimuthCandidates_EquatorSouth(lat) ==
    IF lat > 0
    THEN PyRange(AZ_NORTH_START, AZ_NORTH_STOP, GRID_STEP)
    ELSE LET band == PyRange(AZ_SOUTH_START, AZ_SOUTH_STOP, GRID_STEP)
         IN [i \in 1..Len(band) |-> band[i] % FULL_CIRCLE]

\* lines 71-76: the azimuth candidates
AzimuthCandidates(lat) ==
    IF lat >= 0
    THEN PyRange(AZ_NORTH_START, AZ_NORTH_STOP, GRID_STEP)
    ELSE LET band == PyRange(AZ_SOUTH_START, AZ_SOUTH_STOP, GRID_STEP)
         IN [i \in 1..Len(band) |-> band[i] % FULL_CIRCLE]

\* the comparison against 0 instead of the running maximum
Reduce_AnyPositive(best, tilt, azimuth, annual_irradiance) ==
    IF annual_irradiance > 0
    THEN [max |-> annual_irradiance, tilt |-> tilt, azimuth |-> azimuth]
    ELSE best

\* >= instead of >: an equal sum replaces the pair found first
Reduce_LastWins(best, tilt, azimuth, annual_irradiance) ==
    IF annual_irradiance >= best.max
    THEN [max |-> annual_irradiance, tilt |-> tilt, azimuth |-> azimuth]
    ELSE best

\* the comparison dropped: every candidate replaces the running maximum
Reduce_Always(best, tilt, azimuth, annual_irradiance) ==
    [max |-> annual_irradiance, tilt |-> tilt, azimuth |-> azimuth]

\* lines 104-107: the reduction step on the triple (max, tilt, azimuth)
Reduce(best, tilt, azimuth, annual_irradiance) ==
    IF annual_irradiance > best.max
    THEN [max |-> annual_irradiance, tilt |-> tilt, azimuth |-> azimuth]
    ELSE best

\* lines 78-80: the values the search starts from
InitialBest == [max |-> 0, tilt |-> 0, azimuth |-> 0]

\* the offset subtracted in the effective tilt
ResultDict_Subtracted(best, off) ==
    [optimal_tilt |-> best.tilt,
     optimal_azimuth |-> best.azimuth,
     effective_tilt |-> best.tilt - off,
     ground_slope_offset |-> off,
     annual_irradiance_kwh_m2 |-> TrueDiv(best.max, WH_PER_KWH)]

\* lines 111-119: the returned dict
ResultDict(best, off) ==
    [optimal_tilt |-> best.tilt,
     optimal_azimuth |-> best.azimuth,
     effective_tilt |-> best.tilt + off,
     ground_slope_offset |-> off,
     annual_irradiance_kwh_m2 |-> TrueDiv(best.max, WH_PER_KWH)]

Best == [max |-> max_irradiance, tilt |-> optimal_tilt, azimuth |-> optimal_azimuth]

\* the running maximum kept from the call before (a module-level variable)
Begin_MaxKept ==
    /\ pc \in {"idle", "done"}
    /\ Len(returned) < MaxCalls
    /\ tz' = TzName(longitude)
    /\ queries' = <<<<"Location", latitude, longitude>>,
                    <<"get_solarposition">>, <<"get_clearsky">>>>
    /\ sums_seen' = {}
    /\ tilts' = TiltCandidates(ground_slope_offset)
    /\ azimuths' = AzimuthCandidates(latitude)
    /\ optimal_tilt' = InitialBest.tilt
    /\ optimal_azimuth' = InitialBest.azimuth
    /\ ti' = 1
    /\ ai' = 1
    /\ pc' = "loop"
    /\ UNCHANGED <<latitude, longitude, ground_slope_offset, response, returned,
                   max_irradiance>>
    /\ UNCHANGED viewvars
    /\ UNCHANGED refine

\* lines 16-80: the call starts; the location is built, the external model is
\* asked for solar position and clear sky, the candidate lists are built and
\* the running maximum is reset.
Begin ==
    /\ pc \in {"idle", "done"}
    /\ Len(returned) < MaxCalls
    /\ tz' = TzName(longitude)
    /\ queries' = <<<<"Location", latitude, longitude>>,
                    <<"get_solarposition">>, <<"get_clearsky">>>>
    /\ sums_seen' = {}
    /\ tilts' = TiltCandidates(ground_slope_offset)
    /\ azimuths' = AzimuthCandidates(latitude)
    /\ max_irradiance' = InitialBest.max
    /\ optimal_tilt' = InitialBest.tilt
    /\ optimal_azimuth' = InitialBest.azimuth
    /\ ti' = 1
    /\ ai' = 1
    /\ pc' = "loop"
    /\ UNCHANGED <<latitude, longitude, ground_slope_offset, response, returned>>
    /\ UNCHANGED viewvars
    /\ UNCHANGED refine

\* the clear-sky irradiance queried again inside the grid loop
Evaluate_Requery ==
    /\ pc = "loop"
    /\ ti <= Len(tilts)
    /\ LET tilt == tilts[ti]
           azimuth == azimuths[ai]
           annual_irradiance == Poa(response, tilt, azimuth)
           best == Reduce(Best, tilt, azimuth, annual_irradiance)
       IN /\ queries' = Append(Append(queries, <<"get_clearsky">>),
                               <<"get_total_irradiance", tilt, azimuth>>)
          /\ sums_seen' = sums_seen \cup {annual_irradiance}
          /\ max_irradiance' = best.max
          /\ optimal_tilt' = best.tilt
          /\ optimal_azimuth' = best.azimuth
    /\ IF ai < Len(azimuths)
       THEN ai' = ai + 1 /\ ti' = ti
       ELSE ai' = 1 /\ ti' = ti + 1
    /\ UNCHANGED <<latitude, longitude, ground_slope_offset, response, pc, tz,
                   tilts, azimuths, returned>>
    /\ UNCHANGED viewvars
    /\ UNCHANGED refine

\* lines 84-107: one pass of the inner loop body
Evaluate ==
    /\ pc = "loop"
    /\ ti <= Len(tilts)
    /\ LET tilt == tilts[ti]
           azimuth == azimuths[ai]
           annual_irradiance == Poa(response, tilt, azimuth)
           best == Reduce(Best, tilt, azimuth, annual_irradiance)
       IN /\ queries' = Append(queries, <<"get_total_irradiance", tilt, azimuth>>)
          /\ sums_seen' = sums_seen \cup {annual_irradiance}
          /\ max_irradiance' = best.max
          /\ optimal_tilt' = best.tilt
          /\ optimal_azimuth' = best.azimuth
    /\ IF ai < Len(azimuths)
       THEN ai' = ai + 1 /\ ti' = ti
       ELSE ai' = 1 /\ ti' = ti + 1
    /\ UNCHANGED <<latitude, longitude, ground_slope_offset, response, pc, tz,
                   tilts, azimuths, returned>>
    /\ UNCHANGED viewvars
    /\ UNCHANGED refine

\* lines 109-119: the loops are exhausted; the dict is returned
Return ==
    /\ pc = "loop"
    /\ ti > Len(tilts)
    /\ returned' = Append(returned, ResultDict(Best, ground_slope_offset))
    /\ pc' = "done"
    /\ UNCHANGED <<latitude, longitude, ground_slope_offset, response, tz, tilts,
                   azimuths, ti, ai, max_irradiance, optimal_tilt,
                   optimal_azimuth, queries, sums_seen>>
    /\ UNCHANGED viewvars
    /\ UNCHANGED refine

\* the arguments the optimizer is called with
Latitudes == {-34, 0, 41}
Longitudes == {-74, 151}
Offsets == {-90, -80, 0, 77, 90}

RefineIdle == refine = [pc |-> "unused"]

ViewIdle ==
    /\ request = [kind |-> "none"]
    /\ reply = [kind |-> "none"]
    /\ optimizer_calls = <<>>
    /\ optimizer_returned = <<>>

Init ==
    /\ latitude \in Latitudes
    /\ longitude \in Longitudes
    /\ ground_slope_offset \in Offsets
    /\ response \in Responses
    /\ pc = "idle"
    /\ tz = <<>>
    /\ tilts = <<>>
    /\ azimuths = <<>>
    /\ ti = 0
    /\ ai = 0
    /\ max_irradiance = 0
    /\ optimal_tilt = 0
    /\ optimal_azimuth = 0
    /\ queries = <<>>
    /\ sums_seen = {}
    /\ returned = <<>>
    /\ ViewIdle
    /\ RefineIdle

Next == Begin \/ Evaluate \/ Return

Spec == Init /\ [][Next]_vars

----------------------------------------------------------------------------
(* get_optimal_orientation as one function: the same lines, folded           *)

\* Python evaluates a loop pass before the next one starts: x = x makes the
\* evaluator compute x here instead of deferring it
Computed(x) == x = x

\* lines 85-107: the inner loop for one tilt, from azimuth position j on
RECURSIVE SearchAzimuths(_, _, _, _, _)
SearchAzimuths(r, tilt, azs, j, best) ==
    IF j > Len(azs) THEN best
    ELSE LET next == Reduce(best, tilt, azs[j], Poa(r, tilt, azs[j]))
         IN IF Computed(next)
            THEN SearchAzimuths(r, tilt, azs, j + 1, next)
            ELSE best

\* lines 84-107: the outer loop, from tilt position i on
RECURSIVE Search(_, _, _, _, _)
Search(r, ts, azs, i, best) ==
    IF i > Len(ts) THEN best
    ELSE LET next == SearchAzimuths(r, ts[i], azs, 1, best)
         IN IF Computed(next)
            THEN Search(r, ts, azs, i + 1, next)
            ELSE best

\* lines 16-119
GetOptimalOrientation(lat, lon, off, r) ==
    ResultDict(Search(r, TiltCandidates(off), AzimuthCandidates(lat), 1,
                      InitialBest), off)

----------------------------------------------------------------------------
(* solar_geometry_api_view                                                 *)

LAT_RAW_MIN == -360
LAT_RAW_MAX == 360
LAT_MIN == -90
LAT_MAX == 90
LAT_REFLECT == 180
LON_RAW_MIN == -360
LON_RAW_MAX == 360
LON_HALF == 180
OFFSET_MIN == -90
OFFSET_MAX == 90
HTTP_OK == 200
HTTP_BAD_REQUEST == 400
HTTP_NOT_ALLOWED == 405

\* JSON values of a field
Absent == [t |-> "absent", v |-> 0]
Null == [t |-> "null", v |-> 0]
Num(n) == [t |-> "num", v |-> n]
Str == [t |-> "str", v |-> 0]
NumStr(n) == [t |-> "numstr", v |-> n]
List == [t |-> "list", v |-> 0]

\* float(x): a number and a numeric string convert; None and a list raise
\* TypeError, a non-numeric string raises ValueError
ToFloat(x) ==
    CASE x.t = "num" -> [ok |-> TRUE, v |-> x.v]
      [] x.t = "numstr" -> [ok |-> TRUE, v |-> x.v]
      [] OTHER -> [ok |-> FALSE, v |-> 0]

\* only a missing key defaults: an explicit null goes to float()
OffsetOf_NullConverted(x) ==
    IF x.t = "absent" THEN [ok |-> TRUE, v |-> 0] ELSE ToFloat(x)

\* line 57: 0.0 if data.get('offset') is None else float(data.get('offset'))
OffsetOf(x) ==
    IF x.t \in {"absent", "null"} THEN [ok |-> TRUE, v |-> 0] ELSE ToFloat(x)

\* the other normalization: (lat + 90) mod 180 - 90
NormalizeLatitude_Modulo(latitude_raw) ==
    ((latitude_raw + LAT_MAX) % LAT_REFLECT) - LAT_MAX

\* lines 38-43
NormalizeLatitude(latitude_raw) ==
    IF latitude_raw > LAT_MAX THEN LAT_REFLECT - latitude_raw
    ELSE IF latitude_raw < LAT_MIN THEN (-LAT_REFLECT) - latitude_raw
    ELSE latitude_raw

\* the wrap without the half-turn shift: the result lands in [0, 360)
NormalizeLongitude_Unshifted(longitude_raw) == longitude_raw % FULL_CIRCLE

\* line 53
NormalizeLongitude(longitude_raw) ==
    ((longitude_raw + LON_HALF) % FULL_CIRCLE) - LON_HALF

\* round(x, 2) of the fraction x: hundredths, ties to even
Round2(x) ==
    LET n == 100 * x.num
        q == n \div x.den
        rem == n % x.den
        up == 2 * rem > x.den \/ (2 * rem = x.den /\ q % 2 = 1)
    IN [num |-> IF up THEN q + 1 ELSE q, den |-> 100]

\* line 35
LatitudeOutOfRange(latitude_raw) ==
    latitude_raw < LAT_RAW_MIN \/ latitude_raw > LAT_RAW_MAX

\* line 51
LongitudeOutOfRange(longitude_raw) ==
    longitude_raw < LON_RAW_MIN \/ longitude_raw > LON_RAW_MAX

\* the offset check with its lower bound forgotten
OffsetOutOfRange_NoLower(offset) == offset > OFFSET_MAX

\* line 62
OffsetOutOfRange(offset) == offset < OFFSET_MIN \/ offset > OFFSET_MAX

\* the membership test dropped: every object or array passes
HasKey_Dropped(body, name) == body.kind \in {"object", "array"}

\* 'name' in data, for a JSON object and for a JSON array
HasKey(body, name) ==
    CASE body.kind = "object" -> body[name].t # "absent"
      [] body.kind = "array" -> name \in body.elems
      [] OTHER -> FALSE

MSG_MISSING_LAT == "Missing required parameter: latitude"
MSG_MISSING_LON == "Missing required parameter: longitude"
MSG_INVALID_LAT == "Invalid latitude value"
MSG_INVALID_LON == "Invalid longitude value"
MSG_INVALID_OFFSET == "Invalid offset value"
MSG_LAT_RANGE == "Latitude must be between -360 and 360"
MSG_LON_RANGE == "Longitude must be between -360 and 360"
MSG_OFFSET_RANGE == "Offset (ground slope) must be between -90 and 90 degrees"
MSG_PREFIX == "Invalid input values: "

\* the error answered as a server error
ErrorResponse_ServerError(pieces) ==
    [reply |-> [kind |-> "json", status |-> 500, body |-> [error |-> pieces]],
     calls |-> <<>>,
     returns |-> <<>>]

\* JsonResponse({'error': ...}, status=400); the message is kept as the
\* sequence of the pieces it is concatenated from
ErrorResponse(pieces) ==
    [reply |-> [kind |-> "json", status |-> HTTP_BAD_REQUEST,
                body |-> [error |-> pieces]],
     calls |-> <<>>,
     returns |-> <<>>]

\* lines 76-77: a ValueError reaches the outer handler
ValueErrorResponse(msg) == ErrorResponse(<<MSG_PREFIX, msg>>)

\* the effective tilt copied into optimal_tilt
CallOptimizer_TiltMixedUp(lat, lon, off, outcome) ==
    LET calls == <<<<lat, lon, off>>>>
    IN CASE outcome.kind = "ValueError" ->
              [ValueErrorResponse("model failure") EXCEPT !.calls = calls]
         [] outcome.kind = "Exception" ->
              [ErrorResponse(<<"model failure">>) EXCEPT !.calls = calls]
         [] OTHER ->
              LET result == GetOptimalOrientation(lat, lon, off, outcome)
              IN [reply |->
                     [kind |-> "json", status |-> HTTP_OK,
                      body |->
                         [latitude |-> lat,
                          longitude |-> lon,
                          offset |-> off,
                          optimal_tilt |-> result.effective_tilt,
                          optimal_azimuth |-> result.optimal_azimuth,
                          effective_tilt |-> result.effective_tilt,
                          annual_irradiance_kwh_m2 |->
                              Round2(result.annual_irradiance_kwh_m2)]],
                  calls |-> calls,
                  returns |-> <<result>>]

\* lines 65-79: the optimizer is called; it returns, or the external model fails
CallOptimizer(lat, lon, off, outcome) ==
    LET calls == <<<<lat, lon, off>>>>
    IN CASE outcome.kind = "ValueError" ->
              [ValueErrorResponse("model failure") EXCEPT !.calls = calls]
         [] outcome.kind = "Exception" ->
              [ErrorResponse(<<"model failure">>) EXCEPT !.calls = calls]
         [] OTHER ->
              LET result == GetOptimalOrientation(lat, lon, off, outcome)
              IN [reply |->
                     [kind |-> "json", status |-> HTTP_OK,
                      body |->
                         [latitude |-> lat,
                          longitude |-> lon,
                          offset |-> off,
                          optimal_tilt |-> result.optimal_tilt,
                          optimal_azimuth |-> result.optimal_azimuth,
                          effective_tilt |-> result.effective_tilt,
                          annual_irradiance_kwh_m2 |->
                              Round2(result.annual_irradiance_kwh_m2)]],
                  calls |-> calls,
                  returns |-> <<result>>]

\* lines 20-79: the handler body, its early returns in order
HandlerBody(body, outcome) ==
    IF body.kind = "malformed" THEN ValueErrorResponse("Expecting value")
    ELSE IF body.kind = "scalar"
    THEN ErrorResponse(<<"argument of type 'int' is not iterable">>)
    ELSE IF ~HasKey(body, "latitude") THEN ErrorResponse(<<MSG_MISSING_LAT>>)
    ELSE IF ~HasKey(body, "longitude") THEN ErrorResponse(<<MSG_MISSING_LON>>)
    ELSE IF body.kind = "array"
    THEN ErrorResponse(<<"'list' object has no attribute 'get'">>)
    ELSE LET lat_raw == ToFloat(body.latitude)
             lon_raw == ToFloat(body.longitude)
             off == OffsetOf(body.offset)
         IN IF ~lat_raw.ok THEN ErrorResponse(<<MSG_INVALID_LAT>>)
            ELSE IF LatitudeOutOfRange(lat_raw.v)
            THEN ValueErrorResponse(MSG_LAT_RANGE)
            ELSE IF ~lon_raw.ok THEN ErrorResponse(<<MSG_INVALID_LON>>)
            ELSE IF LongitudeOutOfRange(lon_raw.v)
            THEN ValueErrorResponse(MSG_LON_RANGE)
            ELSE IF ~off.ok THEN ErrorResponse(<<MSG_INVALID_OFFSET>>)
            ELSE IF OffsetOutOfRange(off.v)
            THEN ValueErrorResponse(MSG_OFFSET_RANGE)
            ELSE CallOptimizer(NormalizeLatitude(lat_raw.v),
                               NormalizeLongitude(lon_raw.v), off.v, outcome)

\* the requests that arrive
LatFields ==
    {Absent, Null, Str, List, NumStr(41)}
    \cup {Num(n) : n \in {-361, -360, -95, -90, -34, 0, 90, 95, 360, 361}}
LonFields ==
    {Absent, Null, Str, NumStr(-74)}
    \cup {Num(n) : n \in {-361, -360, -185, -180, 0, 151, 180, 185, 360, 361}}
OffsetFields ==
    {Absent, Null, Str} \cup {Num(n) : n \in {-91, -90, 0, 15, 90, 91}}

Bodies ==
    {[kind |-> "object", latitude |-> la, longitude |-> lo, offset |-> of,
      elems |-> {}] : la \in LatFields, lo \in LonFields, of \in OffsetFields}
    \cup {[kind |-> "array", latitude |-> Absent, longitude |-> Absent,
           offset |-> Absent, elems |-> e] :
            e \in SUBSET {"latitude", "longitude"}}
    \cup {[kind |-> k, latitude |-> Absent, longitude |-> Absent,
           offset |-> Absent, elems |-> {}] : k \in {"malformed", "scalar"}}

Requests == {[kind |-> "http", method |-> m, body |-> b] :
                m \in {"POST", "GET"}, b \in Bodies}

\* what the optimizer call does: the external model answers, or it fails
Outcomes ==
    {[kind |-> k, v |-> 0, pt |-> 0, pa |-> 0] : k \in {"ValueError", "Exception"}}
    \cup {r \in Responses : (r.kind = "const" /\ r.v >= 0)
                            \/ (r.kind = "peak" /\ r.v = 60000 /\ r.pt = PeakAt(1).pt)}

\* the decorator missing: another method runs the handler body too
RequirePost_Missing ==
    /\ request.kind = "http"
    /\ reply.kind = "none"
    /\ request.method # "POST"
    /\ \E outcome \in Outcomes :
          LET out == HandlerBody(request.body, outcome)
          IN /\ reply' = out.reply
             /\ optimizer_calls' = out.calls
             /\ optimizer_returned' = out.returns
    /\ UNCHANGED request
    /\ UNCHANGED optvars
    /\ UNCHANGED refine

\* line 18, require_POST: another method is answered before the body runs
RequirePost ==
    /\ request.kind = "http"
    /\ reply.kind = "none"
    /\ request.method # "POST"
    /\ reply' = [kind |-> "empty", status |-> HTTP_NOT_ALLOWED, body |-> <<>>]
    /\ optimizer_calls' = <<>>
    /\ optimizer_returned' = <<>>
    /\ UNCHANGED request
    /\ UNCHANGED optvars
    /\ UNCHANGED refine

\* lines 19-79: a POST runs the handler
SolarGeometryApiView ==
    /\ request.kind = "http"
    /\ reply.kind = "none"
    /\ request.method = "POST"
    /\ \E outcome \in Outcomes :
          LET out == HandlerBody(request.body, outcome)
          IN /\ reply' = out.reply
             /\ optimizer_calls' = out.calls
             /\ optimizer_returned' = out.returns
    /\ UNCHANGED request
    /\ UNCHANGED optvars
    /\ UNCHANGED refine

OptimizerIdle ==
    /\ latitude = 0
    /\ longitude = 0
    /\ ground_slope_offset = 0
    /\ response = [kind |-> "const", v |-> 0, pt |-> 0, pa |-> 0]
    /\ pc = "unused"
    /\ tz = <<>>
    /\ tilts = <<>>
    /\ azimuths = <<>>
    /\ ti = 0
    /\ ai = 0
    /\ max_irradiance = 0
    /\ optimal_tilt = 0
    /\ optimal_azimuth = 0
    /\ queries = <<>>
    /\ sums_seen = {}
    /\ returned = <<>>

InitView ==
    /\ request \in Requests
    /\ reply = [kind |-> "none"]
    /\ optimizer_calls = <<>>
    /\ optimizer_returned = <<>>
    /\ OptimizerIdle
    /\ RefineIdle

NextView == RequirePost \/ SolarGeometryApiView

SpecView == InitView /\ [][NextView]_vars

----------------------------------------------------------------------------------------------------------------------------------------
(* The max-reduction of get_optimal_orientation over a coarse and a refined *)
(* grid                                                                     *)

\* lines 65-68 with the step of range(0, 91, 5) as a parameter
TiltCandidatesStep(off, step) ==
    LET base_tilts == PyRange(TILT_START, TILT_STOP, step)
        clamped == [i \in 1..Len(base_tilts) |-> ClampTilt(base_tilts[i], off)]
    IN SortAsc(Range(clamped))

\* lines 71-76 with the step of range(90, 271, 5) and range(270, 451, 5) as a
\* parameter
AzimuthCandidatesStep(lat, step) ==
    IF lat >= 0
    THEN PyRange(AZ_NORTH_START, AZ_NORTH_STOP, step)
    ELSE LET band == PyRange(AZ_SOUTH_START, AZ_SOUTH_STOP, step)
         IN [i \in 1..Len(band) |-> band[i] % FULL_CIRCLE]

\* the step sizes the two grids are built with
Steps == {5, 10, 15, 20, 30, 45}

\* lines 78-119 over a given grid: the reduction and the returned dict
SearchGrid(r, ts, azs, off) ==
    ResultDict(Search(r, ts, azs, 1, InitialBest), off)

\* the reduction runs over both grids against the same model answer
RefineSearch ==
    /\ refine.pc = "drawn"
    /\ refine' =
         [refine EXCEPT
            !.pc = "searched",
            !.coarse_result =
                SearchGrid(refine.r, refine.coarse_tilts, refine.coarse_azimuths, 0),
            !.fine_result =
                SearchGrid(refine.r, refine.fine_tilts, refine.fine_azimuths, 0)]
    /\ UNCHANGED optvars
    /\ UNCHANGED viewvars

InitRefine ==
    /\ \E lat \in Latitudes, r \in Responses, cs \in Steps, fs \in Steps :
          refine = [pc |-> "drawn", r |-> r,
                    coarse_tilts |-> TiltCandidatesStep(0, cs),
                    coarse_azimuths |-> AzimuthCandidatesStep(lat, cs),
                    fine_tilts |-> TiltCandidatesStep(0, fs),
                    fine_azimuths |-> AzimuthCandidatesStep(lat, fs),
                    coarse_result |-> <<>>,
                    fine_result |-> <<>>]
    /\ OptimizerIdle
    /\ ViewIdle

NextRefine == RefineSearch

SpecRefine == InitRefine /\ [][NextRefine]_vars

----------------
(* Properties of get_optimal_orientation, checked under Spec               *)

\* the dict the last finished call returned
LastResult == returned[Len(returned)]

\* the candidate pairs of the running call and their annual sums
Candidates == Range(tilts) \X Range(azimuths)
SumOf(c) == Poa(response, c[1], c[2])
SomePositive == \E c \in Candidates : SumOf(c) > 0
SetMax(S) == CHOOSE x \in S : \A y \in S : x >= y
MaxSum == SetMax({SumOf(c) : c \in Candidates})
IsMaximal(c) == LET m == MaxSum IN SumOf(c) = m /\ \A d \in Candidates : m >= SumOf(d)
Tied == LET m == MaxSum IN {c \in Candidates : SumOf(c) = m}

\* the stepped search and the folded one return the same dict
SearchAgrees ==
    pc = "done" =>
        LastResult = GetOptimalOrientation(latitude, longitude,
                                           ground_slope_offset, response)

\* C1: when some candidate has an annual sum > 0, the returned pair is a
\* member of tilts x azimuths, no candidate has a greater annual sum, and
\* annual_irradiance_kwh_m2 is that maximal sum divided by 1000.
C1_ReturnsMaximalPair ==
    (pc = "done" /\ SomePositive) =>
        LET res == LastResult
            c == <<res.optimal_tilt, res.optimal_azimuth>>
            kwh == res.annual_irradiance_kwh_m2
        IN /\ c \in Candidates
           /\ IsMaximal(c)
           /\ kwh.den > 0
           /\ 1000 * kwh.num = SumOf(c) * kwh.den

C1_Witness ==
    /\ pc = "done"
    /\ SomePositive
    /\ response.kind = "peak"
    /\ LastResult.optimal_tilt > 0
    /\ \E c \in Candidates : SumOf(c) < 0

\* C2 as stated, in the case of a maximal sum > 0: among the pairs that share
\* the maximal sum the returned one has the smallest tilt and, among those,
\* the smallest azimuth, in both hemispheres.
C2_SmallestTiltThenSmallestAzimuth ==
    (pc = "done" /\ SomePositive) =>
        LET res == LastResult
            tied == Tied
        IN \A c \in tied :
              \/ res.optimal_tilt < c[1]
              \/ (res.optimal_tilt = c[1] /\ res.optimal_azimuth <= c[2])

\* the place of an azimuth in the iteration: ascending for latitude >= 0; for
\* latitude < 0 the band 270..450 before the wrap, so 270..355 precede 0..90
IterationRank(az) == IF latitude < 0 /\ az <= 90 THEN az + 360 ELSE az

\* C2, amended: when the maximal sum is > 0, the returned pair is the first of
\* the pairs sharing it in iteration order: smallest tilt, and among those the
\* azimuth met first, which for latitude < 0 is in the order 270..355, 0..90.
C2_FirstEncounteredWins ==
    (pc = "done" /\ SomePositive) =>
        LET res == LastResult
            tied == Tied
        IN /\ <<res.optimal_tilt, res.optimal_azimuth>> \in tied
           /\ \A c \in tied :
                \/ res.optimal_tilt < c[1]
                \/ /\ res.optimal_tilt = c[1]
                   /\ IterationRank(res.optimal_azimuth) <= IterationRank(c[2])

C2_Witness ==
    /\ pc = "done"
    /\ SomePositive
    /\ latitude < 0
    /\ LET tied == Tied
       IN /\ Cardinality(tied) > 1
          /\ \E c \in tied : c[1] = LastResult.optimal_tilt
                             /\ c[2] < LastResult.optimal_azimuth

\* C3: every returned dict has effective_tilt = optimal_tilt +
\* ground_slope_offset, echoes the offset it was called with, and has
\* optimal_tilt in [0, 90].
C3_EffectiveTilt ==
    \A i \in 1..Len(returned) :
        ground_slope_offset \in -90..90 =>
        /\ returned[i].effective_tilt =
               returned[i].optimal_tilt + ground_slope_offset
        /\ returned[i].ground_slope_offset = ground_slope_offset
        /\ returned[i].optimal_tilt \in 0..90

C3_Witness ==
    /\ pc = "done"
    /\ ground_slope_offset = 77
    /\ LastResult.optimal_tilt = 13
    /\ LastResult.effective_tilt = 90

\* C4 as stated: for latitude >= 0 the returned optimal_azimuth is in
\* [90, 270], for latitude < 0 it is in [270, 360] or [0, 90], whatever the
\* model's answer, one with all annual sums 0 included.
C4_AzimuthInHemisphereBand ==
    \A i \in 1..Len(returned) :
        IF latitude >= 0
        THEN returned[i].optimal_azimuth \in 90..270
        ELSE returned[i].optimal_azimuth \in (270..360) \cup (0..90)

\* C5: during the search the running maximum starts at 0, never decreases
\* from one evaluated candidate to the next, equals after each candidate the
\* maximum of 0 and all sums seen so far, and the returned
\* annual_irradiance_kwh_m2 is >= 0.
C5_RunningMaximum ==
    [][ /\ (pc # "loop" /\ pc' = "loop") => max_irradiance' = 0
        /\ (pc = "loop" /\ pc' = "loop") =>
              /\ max_irradiance' >= max_irradiance
              /\ max_irradiance' \in {0} \cup sums_seen'
              /\ \A x \in {0} \cup sums_seen' : max_irradiance' >= x
              /\ Cardinality(sums_seen') >= 1
        /\ (pc = "loop" /\ pc' = "done") =>
              /\ LastResult'.annual_irradiance_kwh_m2.num >= 0
              /\ LastResult'.annual_irradiance_kwh_m2.den > 0
      ]_vars

C5_Witness ==
    /\ pc = "loop"
    /\ max_irradiance > 0
    /\ \E x \in sums_seen : x < 0
    /\ \E x \in sums_seen : x > 0 /\ x < max_irradiance

\* C6: calls with the same arguments against the same model answer return
\* dicts equal in all five fields; nothing is carried from one call to the
\* next.
C6_Deterministic ==
    \A i, j \in 1..Len(returned) : returned[i] = returned[j]

C6_Witness ==
    /\ Len(returned) >= 2
    /\ returned[2].optimal_tilt > 0
    /\ returned[2].annual_irradiance_kwh_m2.num > 0

\* clamp(x, 0, 90)
ClampTo0_90(x) == IF x < 0 THEN 0 ELSE IF x > 90 THEN 90 ELSE x

\* C7: the tilt list is the ascending, duplicate-free list of
\* clamp(b - ground_slope_offset, 0, 90) for b in {0, 5, ..., 90}; every
\* element is in [0, 90], it has 1 to 19 elements, offset 90 gives exactly {0}
\* and offset -90 exactly {90}.
C7_TiltCandidates ==
    pc \in {"loop", "done"} =>
        /\ \A i \in 1..(Len(tilts) - 1) : tilts[i] < tilts[i + 1]
        /\ Range(tilts) =
             {ClampTo0_90(b - ground_slope_offset) :
                 b \in {5 * k : k \in 0..18}}
        /\ \A i \in 1..Len(tilts) : tilts[i] \in 0..90
        /\ Len(tilts) \in 1..19
        /\ ground_slope_offset = 90 => tilts = <<0>>
        /\ ground_slope_offset = -90 => tilts = <<90>>

C7_Witness ==
    /\ pc = "loop"
    /\ ground_slope_offset = 77
    /\ tilts = <<0, 3, 8, 13>>

\* C8: the azimuth list has exactly 37 values in 5-degree steps: 90, 95, ...,
\* 270 for latitude >= 0 (0 included); for latitude < 0 the band 270..450
\* wrapped modulo 360, spanning 270..360 and 0..90; every value in [0, 360].
C8_AzimuthCandidates ==
    pc \in {"loop", "done"} =>
        /\ Len(azimuths) = 37
        /\ Cardinality(Range(azimuths)) = 37
        /\ \A i \in 1..Len(azimuths) : azimuths[i] \in 0..360
        /\ latitude >= 0 =>
              \A i \in 1..37 : azimuths[i] = 90 + 5 * (i - 1)
        /\ latitude < 0 =>
              /\ \A i \in 1..37 : azimuths[i] = (270 + 5 * (i - 1)) % 360
              /\ Range(azimuths) \subseteq (270..360) \cup (0..90)

C8_Witness ==
    /\ pc = "loop"
    /\ latitude < 0
    /\ azimuths[1] = 270
    /\ azimuths[19] = 0
    /\ azimuths[37] = 90

----------------------------------------------------------------------------
(* Properties of solar_geometry_api_view, checked under SpecView           *)

\* a POST whose body is a JSON object has been answered
AnsweredObjectPost ==
    /\ request.kind = "http"
    /\ request.method = "POST"
    /\ request.body.kind = "object"
    /\ reply.kind = "json"

Is400 == reply.status = 400

\* the error message contains the text
ErrorContains(text) ==
    /\ "error" \in DOMAIN reply.body
    /\ \E i \in 1..Len(reply.body.error) : reply.body.error[i] = text

\* the error message is exactly the text
ErrorIs(text) ==
    /\ DOMAIN reply.body = {"error"}
    /\ reply.body.error = <<text>>

\* the field holds a number (as a JSON number or as a numeric string)
IsNumber(x) == x.t \in {"num", "numstr"}
NumberIn(x, lo, hi) == IsNumber(x) /\ x.v >= lo /\ x.v <= hi
NumberOutside(x, lo, hi) == IsNumber(x) /\ (x.v < lo \/ x.v > hi)

\* C9: a POSTed JSON object without 'latitude' gets 400 'Missing required
\* parameter: latitude'; one with 'latitude' and without 'longitude' gets 400
\* 'Missing required parameter: longitude'; this comes before every numeric
\* and range check, whatever the other fields hold, and the optimizer is not
\* invoked.
C9_MissingParameter ==
    AnsweredObjectPost =>
        LET b == request.body
        IN /\ b.latitude = Absent =>
                Is400 /\ ErrorIs("Missing required parameter: latitude")
                      /\ optimizer_calls = <<>>
           /\ (b.latitude # Absent /\ b.longitude = Absent) =>
                Is400 /\ ErrorIs("Missing required parameter: longitude")
                      /\ optimizer_calls = <<>>

C9_Witness ==
    /\ AnsweredObjectPost
    /\ request.body.latitude = Num(361)
    /\ request.body.longitude = Absent
    /\ request.body.offset = Num(91)
    /\ ErrorIs("Missing required parameter: longitude")

\* C10: a raw latitude outside [-360, 360], a raw longitude outside
\* [-360, 360] or an offset outside [-90, 90] gets 400 and the optimizer is
\* not invoked; the message names the first violation in the order latitude,
\* longitude, offset; the bounds themselves are accepted.
C10_RangeChecks ==
    AnsweredObjectPost =>
        LET b == request.body
            present == b.latitude # Absent /\ b.longitude # Absent
            latBad == NumberOutside(b.latitude, -360, 360)
            lonBad == NumberOutside(b.longitude, -360, 360)
            offBad == NumberOutside(b.offset, -90, 90)
            latOk == NumberIn(b.latitude, -360, 360)
            lonOk == NumberIn(b.longitude, -360, 360)
            offOk == b.offset \in {Absent, Null} \/ NumberIn(b.offset, -90, 90)
        IN /\ (latBad \/ lonBad \/ offBad) => Is400 /\ optimizer_calls = <<>>
           /\ (present /\ latBad) =>
                ErrorContains("Latitude must be between -360 and 360")
           /\ (latOk /\ lonBad) =>
                ErrorContains("Longitude must be between -360 and 360")
           /\ (latOk /\ lonOk /\ offBad) =>
                ErrorContains(
                    "Offset (ground slope) must be between -90 and 90 degrees")
           /\ (latOk /\ lonOk /\ offOk) =>
                /\ Len(optimizer_calls) = 1
                /\ Is400 =>
                     /\ ~ErrorContains("Latitude must be between -360 and 360")
                     /\ ~ErrorContains("Longitude must be between -360 and 360")
                     /\ ~ErrorContains(
                          "Offset (ground slope) must be between -90 and 90 degrees")

C10_Witness ==
    /\ AnsweredObjectPost
    /\ request.body.latitude = Num(360)
    /\ request.body.longitude = Num(-361)
    /\ request.body.offset = Num(-91)
    /\ Is400
    /\ ErrorContains("Longitude must be between -360 and 360")
    /\ optimizer_calls = <<>>

\* the optimizer was called once; its arguments
Called == Len(optimizer_calls) = 1
CalledLatitude == optimizer_calls[1][1]
CalledLongitude == optimizer_calls[1][2]
CalledOffset == optimizer_calls[1][3]
Is200 == reply.status = 200

\* the request passes the range checks of latitude and longitude
PassesRangeChecks ==
    /\ NumberIn(request.body.latitude, -360, 360)
    /\ NumberIn(request.body.longitude, -360, 360)

\* C11 as stated: for a request that passes the range checks the latitude given
\* to the optimizer and echoed in the response is in [-90, 90] and the
\* longitude in [-180, 180].
C11_NormalizedWithinBounds ==
    (AnsweredObjectPost /\ PassesRangeChecks) =>
        /\ Called =>
              /\ CalledLatitude \in -90..90
              /\ CalledLongitude \in -180..180
        /\ Is200 =>
              /\ reply.body.latitude \in -90..90
              /\ reply.body.longitude \in -180..180

\* reflection of an out-of-range latitude
Reflected(raw) ==
    IF raw > 90 THEN 180 - raw ELSE IF raw < -90 THEN -180 - raw ELSE raw

ValidCoordinates == PassesRangeChecks

\* C14: 'offset' is optional: absent or null, the optimizer is called with
\* offset 0 and the response reports 0; a number in [-90, 90] is passed to the
\* optimizer and echoed as offset.
C14_OffsetDefault ==
    (AnsweredObjectPost /\ ValidCoordinates) =>
        LET o == request.body.offset
        IN /\ o \in {Absent, Null} =>
                /\ Called
                /\ CalledOffset = 0
                /\ Is200 => reply.body.offset = 0
           /\ NumberIn(o, -90, 90) =>
                /\ Called
                /\ CalledOffset = o.v
                /\ Is200 => reply.body.offset = o.v

C14_Witness ==
    /\ AnsweredObjectPost
    /\ ValidCoordinates
    /\ request.body.offset = Null
    /\ Called
    /\ Is200
    /\ reply.body.offset = 0

\* every field passes validation
PassesValidation ==
    /\ PassesRangeChecks
    /\ \/ request.body.offset \in {Absent, Null}
       \/ NumberIn(request.body.offset, -90, 90)

\* C15: when the request passes all validation and the optimizer call
\* succeeds, the optimizer was invoked exactly once with (normalized latitude,
\* normalized longitude, offset) and the response is 200 with exactly the
\* seven keys; latitude, longitude and offset are the arguments of the call,
\* optimal_tilt, optimal_azimuth and effective_tilt the values it returned.
C15_SuccessResponse ==
    (AnsweredObjectPost /\ PassesValidation) =>
        /\ Called
        /\ CalledLatitude = Reflected(request.body.latitude.v)
        /\ (CalledLongitude - request.body.longitude.v) % 360 = 0
        /\ CalledLongitude \in -180..180
        /\ CalledOffset = IF IsNumber(request.body.offset)
                          THEN request.body.offset.v ELSE 0
        /\ Len(optimizer_returned) <= 1
        /\ Len(optimizer_returned) = 1 =>
              LET result == optimizer_returned[1]
              IN /\ Is200
                 /\ DOMAIN reply.body =
                      {"latitude", "longitude", "offset", "optimal_tilt",
                       "optimal_azimuth", "effective_tilt",
                       "annual_irradiance_kwh_m2"}
                 /\ reply.body.latitude = CalledLatitude
                 /\ reply.body.longitude = CalledLongitude
                 /\ reply.body.offset = CalledOffset
                 /\ reply.body.optimal_tilt = result.optimal_tilt
                 /\ reply.body.optimal_azimuth = result.optimal_azimuth
                 /\ reply.body.effective_tilt = result.effective_tilt

C15_Witness ==
    /\ AnsweredObjectPost
    /\ PassesValidation
    /\ request.body.offset = Num(15)
    /\ Len(optimizer_returned) = 1
    /\ Is200
    /\ reply.body.optimal_tilt = 30
    /\ reply.body.effective_tilt = 45
    /\ reply.body.optimal_azimuth = 180

\* a POST has been answered
AnsweredPost ==
    /\ request.kind = "http"
    /\ request.method = "POST"
    /\ reply.kind # "none"

\* the POST succeeded: a JSON object that passes validation, and the
\* optimizer call returned
Succeeded ==
    /\ request.body.kind = "object"
    /\ PassesValidation
    /\ Len(optimizer_returned) = 1

\* C16: every POST ends in a structured response, 200 on success and otherwise
\* 400 with a JSON body holding 'error': a malformed body, a body that is not
\* an object, a non-numeric field, a range violation, an exception of the
\* optimizer or the external model; no exception escapes and no status is 5xx.
C16_StructuredResponse ==
    AnsweredPost =>
        /\ reply.kind = "json"
        /\ reply.status \in {200, 400}
        /\ reply.status = 200 <=> Succeeded
        /\ reply.status = 400 =>
              /\ DOMAIN reply.body = {"error"}
              /\ Len(reply.body.error) >= 1

C16_Witness ==
    /\ AnsweredPost
    /\ request.body.kind = "object"
    /\ PassesValidation
    /\ Called
    /\ optimizer_returned = <<>>
    /\ reply.status = 400
    /\ reply.body.error = <<"model failure">>

\* another method than POST has been answered
AnsweredOtherMethod ==
    /\ request.kind = "http"
    /\ request.method # "POST"
    /\ reply.kind # "none"

\* C17: another method than POST is answered 405 before the handler body
\* runs: the body is neither parsed nor validated, the optimizer not invoked.
C17_MethodNotAllowed ==
    AnsweredOtherMethod =>
        /\ reply.status = 405
        /\ reply.kind = "empty"
        /\ optimizer_calls = <<>>
        /\ optimizer_returned = <<>>

C17_Witness ==
    /\ AnsweredOtherMethod
    /\ request.body.kind = "malformed"
    /\ reply.status = 405

----------------------------------------------------------------------------
(* Further properties of get_optimal_orientation, checked under Spec       *)

\* the hour offset the zone name stands for: 'Etc/GMT-h' is h, 'Etc/GMT+h' is -h
HourOffset == IF tz[1] = "Etc/GMT-" THEN tz[2] ELSE -tz[2]

\* C18 as stated: for every longitude in [-180, 180] the integer hour offset
\* of the local time reference is floor(longitude / 15).
C18_HourOffsetIsFloor ==
    (pc \in {"loop", "done"} /\ longitude \in -180..180) =>
        /\ 15 * HourOffset <= longitude
        /\ longitude < 15 * (HourOffset + 1)

\* the plane-of-array queries of the running call, and the k-th pair of
\* tilts x azimuths in tilt-major order
Evaluations == Len(queries) - 3
EvaluatedPair(k) == <<queries[3 + k][2], queries[3 + k][3]>>
TiltMajorPair(k) == <<tilts[((k - 1) \div 37) + 1], azimuths[((k - 1) % 37) + 1]>>

\* C20: the search evaluates every pair of tilts x azimuths exactly once, one
\* plane-of-array query per pair, in tilt-major order, and then terminates:
\* |tilts| x 37 evaluations, at least 37 and at most 19 x 37 = 703, for every
\* offset in [-90, 90] and either hemisphere.
C20_EveryPairOnce ==
    (pc \in {"loop", "done"} /\ ground_slope_offset \in -90..90) =>
        LET n == Evaluations
            total == Len(tilts) * 37
        IN /\ total >= 37 /\ total <= 703
           /\ n >= 0 /\ n <= total
           /\ n >= 1 => EvaluatedPair(n) = TiltMajorPair(n)
           /\ (pc = "loop" /\ n < total) => ENABLED Evaluate /\ ~ENABLED Return
           /\ (pc = "loop" /\ n = total) => ENABLED Return /\ ~ENABLED Evaluate
           /\ pc = "done" =>
                 /\ n = total
                 /\ ~ENABLED Evaluate
                 /\ \A k \in 1..n :
                       /\ queries[3 + k][1] = "get_total_irradiance"
                       /\ EvaluatedPair(k) = TiltMajorPair(k)
                 /\ {EvaluatedPair(k) : k \in 1..n} = Candidates
                 /\ Cardinality(Candidates) = n

C20_Witness ==
    /\ pc = "done"
    /\ latitude < 0
    /\ ground_slope_offset = 0
    /\ Len(tilts) = 19
    /\ Evaluations = 703
    /\ EvaluatedPair(703) = <<90, 90>>

----------------------------------------------------------------------------
(* Property of the max-reduction under refinement, checked under SpecRefine *)

\* every pair of the coarse grid is a pair of the refined grid
RefinedContainsCoarse ==
    /\ Range(refine.coarse_tilts) \subseteq Range(refine.fine_tilts)
    /\ Range(refine.coarse_azimuths) \subseteq Range(refine.fine_azimuths)

\* the fraction a is at least the fraction b (positive denominators)
FractionGeq(a, b) == a.num * b.den >= b.num * a.den

\* C19: for a fixed model answer, when the refined grid contains every pair
\* of the coarser grid, the annual_irradiance_kwh_m2 of the max-reduction over
\* the refined grid is >= the one over the coarser grid.
C19_RefinementMonotone ==
    (refine.pc = "searched" /\ RefinedContainsCoarse) =>
        FractionGeq(refine.fine_result.annual_irradiance_kwh_m2,
                    refine.coarse_result.annual_irradiance_kwh_m2)

C19_Witness ==
    /\ refine.pc = "searched"
    /\ RefinedContainsCoarse
    /\ Len(refine.fine_tilts) > Len(refine.coarse_tilts)
    /\ refine.coarse_result.annual_irradiance_kwh_m2.num > 0
    /\ refine.fine_result.annual_irradiance_kwh_m2.num
         > refine.coarse_result.annual_irradiance_kwh_m2.num

----------------------------------------------------------------------------
(* The degenerate search and the order of the external queries, checked     *)
(* under Spec                                                               *)

\* C21: when no candidate pair has an annual sum > 0, the call returns the
\* initial values optimal_tilt = 0, optimal_azimuth = 0,
\* annual_irradiance_kwh_m2 = 0 and effective_tilt = ground_slope_offset,
\* whether or not the pair (0, 0) is a member of the candidate grid.
C21_NoPositiveReturnsInitial ==
    (pc = "done" /\ ~SomePositive) =>
        LET res == LastResult
        IN /\ res.optimal_tilt = 0
           /\ res.optimal_azimuth = 0
           /\ res.annual_irradiance_kwh_m2.num = 0
           /\ res.annual_irradiance_kwh_m2.den > 0
           /\ res.effective_tilt = ground_slope_offset
           /\ res.ground_slope_offset = ground_slope_offset

C21_Witness ==
    /\ pc = "done"
    /\ ~SomePositive
    /\ latitude >= 0
    /\ ground_slope_offset = -90
    /\ tilts = <<90>>
    /\ <<0, 0>> \notin Candidates
    /\ LastResult.optimal_tilt = 0
    /\ LastResult.optimal_azimuth = 0
    /\ LastResult.effective_tilt = -90

\* the queries of the running call by kind
QueriesOf(kind) == {k \in 1..Len(queries) : queries[k][1] = kind}

\* C22: a call constructs the location once, then queries the solar position
\* once and then the clear-sky irradiance once, all before the first
\* plane-of-array evaluation; every later query is a plane-of-array
\* evaluation, none repeats one of the three.
C22_QueryOrder ==
    (pc \in {"loop", "done"}) =>
        /\ Len(queries) >= 3
        /\ queries[1] = <<"Location", latitude, longitude>>
        /\ queries[2] = <<"get_solarposition">>
        /\ queries[3] = <<"get_clearsky">>
        /\ Len(queries) > 3 =>
              /\ queries[4][1] = "get_total_irradiance"
              /\ queries[Len(queries)][1] = "get_total_irradiance"
        /\ pc = "done" =>
              /\ QueriesOf("Location") = {1}
              /\ QueriesOf("get_solarposition") = {2}
              /\ QueriesOf("get_clearsky") = {3}
              /\ QueriesOf("get_total_irradiance") = 4..Len(queries)

C22_Witness ==
    /\ pc = "done"
    /\ latitude >= 0
    /\ Len(returned) = MaxCalls
    /\ Len(queries) = 3 + 19 * 37
    /\ QueriesOf("get_clearsky") = {3}
    /\ queries[4] = <<"get_total_irradiance", 0, 90>>

====
